---- MODULE Spec2Model ----
(***************************************************************************)
(* Timed claim-auction allocator of the Discord task bot.                  *)
(*                                                                         *)
(* The model follows src/task_bot_v2.py (the multi-winner bot); the        *)
(* selection and the round of the single-winner bot, src/task_bot.py, are  *)
(* kept beside it.                                                         *)
(* A tasks.Loop object of discord.ext is modelled by its asyncio task:     *)
(* start() creates the task, cancel() throws CancelledError into it at its *)
(* current await (no handler of the bot catches it, `except Exception`     *)
(* does not cover it), stop() lets the running iteration finish and ends   *)
(* the task after it.                                                      *)
(***************************************************************************)
EXTENDS Integers, Sequences, FiniteSets, TLC

\* ---------------------------------------------------------------- bounds
MaxUsers == 3       \* guild members that may react
MaxMsgs == 3        \* announcements posted in one run
MaxCreates == 2     \* accepted /create_task commands in one run
MaxLate == 1        \* reaction events that arrive outside a claim window
NumCmds == 2        \* command coroutines that may be in flight together
MaxHours == 2       \* largest role_removal_hours tried where removal tasks fire

MaxTime == MaxUsers - 1     \* readings of datetime.now() are 0..MaxTime
MaxTasks == MaxMsgs         \* largest `tasks` argument of /create_task
MaxWinners == MaxUsers - 1  \* largest `winners_per_task` argument tried

Users == 1..MaxUsers
Bot == 0                        \* the bot's own account
Msgs == 1..MaxMsgs
Loops == 0..MaxCreates          \* 0 is the loop object built by __init__
Cmds == 1..NumCmds
Times == 0..MaxTime
Fetches == {"ok", "notfound", "httperr", "nocheck"}
OtherMsg == MaxMsgs + 1         \* a message of the guild that is not an announcement
Rows == 1..MaxTasks             \* len(worksheet.get_all_values()) as tried
SheetAttempts == 3              \* range(3) in write_to_sheet

VARIABLES
    total_tasks,            \* self.total_tasks
    current_task,           \* self.current_task (the cursor)
    winners_per_task,       \* self.winners_per_task
    configured,             \* self.configured
    announce_channel,       \* self.announce_channel is set
    sheet_url,              \* self.sheet_url is set
    interval_minutes,       \* self.interval_minutes
    reaction_time,          \* self.reaction_time
    role_removal_hours,     \* self.role_removal_hours
    task_allocation_loop,   \* the loop object self.task_allocation_loop names
    loopSt,                 \* per loop object: "new", "waiting", "inround", "done"
    loopStop,               \* per loop object: _stop_next_iteration
    loopMsg,                \* per loop object: announcement of its round in flight, 0 if none
    nLoops,                 \* loop objects built by restart_task_loop
    nCreates,               \* accepted /create_task commands
    cmd,                    \* per command coroutine: "idle", "restart", "sleep"
    nMsgs,                  \* announcements posted
    reactors,               \* per announcement: members holding the claim reaction, in order
    reaction_timestamps,    \* self.reaction_timestamps: message id -> (user id -> time)
    registered,             \* per announcement: the keys of its bucket in the order the dict holds them
    now,                    \* the clock datetime.now() reads
    nLate,                  \* reaction events delivered outside a window
    rec,                    \* per announcement: its round's locals and outcome
    grants,                 \* add_roles calls that succeeded: <<msg, user, task>>
    dms,                    \* dm_winner calls: <<msg, user, task>>
    writes,                 \* write_to_sheet calls: <<msg, user, task>>
    removals,               \* schedule_role_removal tasks created: <<msg, user, task>>
    posts,                  \* error posts made in the announce channel: <<msg, user, kind>>
    dmlog,                  \* what each dm_winner call did
    sheetlog,               \* what each write_to_sheet call did
    role_removal_tasks,     \* self._role_removal_tasks: the removal tasks not yet done
    roles,                  \* the members who hold the task role (member.roles)
    revlog,                 \* what each removal task did when its sleep was over
    completions,            \* the loop objects that posted "All Tasks Complete!"
    reply,                  \* the last answer of /configure_settings or /create_task
    stopped                 \* /stop_tasks was accepted after the last accepted /create_task

vars == <<total_tasks, current_task, winners_per_task, configured, announce_channel,
          sheet_url, interval_minutes, reaction_time, role_removal_hours,
          task_allocation_loop, loopSt, loopStop, loopMsg, nLoops, nCreates,
          cmd, nMsgs, reactors, reaction_timestamps, registered, now, nLate, rec,
          grants, dms, writes, removals, posts, dmlog, sheetlog, role_removal_tasks,
          roles, revlog, completions, reply, stopped>>

settingVars == <<interval_minutes, reaction_time, role_removal_hours>>
botVars == <<total_tasks, winners_per_task, configured, announce_channel, sheet_url,
             settingVars>>
loopVars == <<task_allocation_loop, loopSt, loopStop, loopMsg, nLoops>>
cmdVars == <<nCreates, cmd, reply, stopped>>
roleVars == <<role_removal_tasks, roles, revlog>>
effectVars == <<grants, dms, writes, removals, posts, dmlog, sheetlog, roleVars,
                completions>>

\* ------------------------------------------------------------- helpers
Min(a, b) == IF a <= b THEN a ELSE b

Max(a, b) == IF a >= b THEN a ELSE b

Range(s) == {s[j] : j \in 1..Len(s)}

\* mutant of Take: the slice is not cut
TakeAll(s, n) == s

\* list[:n]
Take(s, n) == SubSeq(s, 1, Min(n, Len(s)))

RECURSIVE Without(_, _)
Without(s, x) ==
    IF s = <<>> THEN <<>>
    ELSE IF Head(s) = x THEN Without(Tail(s), x)
    ELSE <<Head(s)>> \o Without(Tail(s), x)

\* rec[m]: the locals of the round that posted announcement m (pc, start =
\* starting_task_num, want = tasks_this_round, stamps = the bucket as read at
\* resolution, sortnow = the datetime.now() given to unstamped reactors,
\* winners, i, assigned = winners_assigned) and what is remembered of the
\* round once it is over (loop, fetched = reactors, oks = which winners were
\* processed to the end, status, after = the cursor when the round ended)
NoRec == [pc |-> "none", loop |-> 0, start |-> 0, want |-> 0, fetched |-> <<>>,
          stamps |-> <<>>, sortnow |-> 0, winners |-> <<>>, i |-> 1,
          oks |-> <<>>, assigned |-> <<>>, status |-> "NONE", after |-> 0]

\* the coroutine's frame is gone once the round is over
Forget(r) == [r EXCEPT !.pc = "done", !.stamps = <<>>, !.sortnow = 0,
                       !.winners = <<>>, !.i = 1]

\* the bucket of a message, empty when the message has none
Bucket(m) == IF m \in DOMAIN reaction_timestamps THEN reaction_timestamps[m] ELSE <<>>

\* mutant of DropBucket: the entry stays
KeepBucket(rt, m) == rt

\* del self.reaction_timestamps[message.id]
DropBucket(rt, m) == [x \in (DOMAIN rt) \ {m} |-> rt[x]]

\* ------------------------------------------------------ winner selection
\* user.bot
IsBot(u) == u = Bot

\* checkmark_reaction.users(): the bot put its own reaction on the
\* announcement when it posted it, the members follow
users(m) == <<Bot>> \o reactors[m]

\* mutant of non_bot: every user of the reaction is kept
every_user(us) == us

\* reactors: the users of the reaction that are not bots
non_bot(us) == SelectSeq(us, LAMBDA u : ~IsBot(u))

\* list.sort(key=...) is stable: an element goes after every element whose
\* key is not greater than its own
RECURSIVE InsertByTime(_, _)
InsertByTime(sorted, e) ==
    IF sorted = <<>> THEN <<e>>
    ELSE IF e[2] < Head(sorted)[2] THEN <<e>> \o sorted
    ELSE <<Head(sorted)>> \o InsertByTime(Tail(sorted), e)

RECURSIVE SortByTime(_)
SortByTime(pairs) ==
    IF pairs = <<>> THEN <<>>
    ELSE InsertByTime(SortByTime(SubSeq(pairs, 1, Len(pairs) - 1)), pairs[Len(pairs)])

\* sorted_reactors before the sort: a reactor without a recorded timestamp
\* gets datetime.now()
StampedReactors(rs, bucket, t) ==
    [j \in 1..Len(rs) |->
        <<rs[j], IF rs[j] \in DOMAIN bucket THEN bucket[rs[j]] ELSE t>>]

\* mutant of SelectWinners: the reactors are taken in the fetched order
SelectWinnersUnsorted(rs, bucket, t, want) == Take(rs, want)

SelectWinners(rs, bucket, t, want) ==
    LET sorted == SortByTime(StampedReactors(rs, bucket, t))
        chosen == Take(sorted, want)
    IN  [j \in 1..Len(chosen) |-> chosen[j][1]]

\* the single-winner bot: a running minimum over the recorded timestamps,
\* reactors[0] when none is recorded
RECURSIVE EarliestV1(_, _, _, _)
EarliestV1(rs, bucket, winner, earliest) ==
    IF rs = <<>> THEN winner
    ELSE LET r == Head(rs)
         IN  IF r \in DOMAIN bucket /\ (earliest = -1 \/ bucket[r] < earliest)
             THEN EarliestV1(Tail(rs), bucket, r, bucket[r])
             ELSE EarliestV1(Tail(rs), bucket, winner, earliest)

SelectWinnerV1(rs, bucket) == EarliestV1(rs, bucket, rs[1], -1)

\* ------------------------------------------------------------ listener
\* mutant of on_reaction_add: a later event overwrites the timestamp
on_reaction_add_overwrite(rt, m, u, t) ==
    LET old == IF m \in DOMAIN rt THEN rt[m] ELSE <<>>
    IN  IF IsBot(u) THEN rt
        ELSE
        [x \in (DOMAIN rt) \cup {m} |->
            IF x = m THEN [y \in (DOMAIN old) \cup {u} |-> IF y = u THEN t ELSE old[y]]
            ELSE rt[x]]

\* the keys of a bucket in the order the dict holds them: a new key goes last
Register(reg, m, u) ==
    IF IsBot(u) \/ u \in Range(reg[m]) THEN reg ELSE [reg EXCEPT ![m] = Append(@, u)]

on_reaction_add(rt, m, u, t) ==
    LET rt1 == IF m \in DOMAIN rt THEN rt
               ELSE [x \in (DOMAIN rt) \cup {m} |-> IF x = m THEN <<>> ELSE rt[x]]
    IN  IF IsBot(u) THEN rt
        ELSE IF u \in DOMAIN rt1[m] THEN rt1
        ELSE [rt1 EXCEPT ![m] = [y \in (DOMAIN rt1[m]) \cup {u} |->
                                    IF y = u THEN t ELSE rt1[m][y]]]

\* ------------------------------------------------------------- initial
Init ==
    /\ total_tasks = 0
    /\ current_task = 1
    /\ winners_per_task = 1
    /\ configured = FALSE
    /\ announce_channel = FALSE
    /\ sheet_url = FALSE
    /\ interval_minutes = 4
    /\ reaction_time = 5
    /\ role_removal_hours = 12
    /\ task_allocation_loop = 0
    /\ loopSt = [l \in Loops |-> "new"]
    /\ loopStop = [l \in Loops |-> FALSE]
    /\ loopMsg = [l \in Loops |-> 0]
    /\ nLoops = 0
    /\ nCreates = 0
    /\ cmd = [c \in Cmds |-> "idle"]
    /\ nMsgs = 0
    /\ reactors = [m \in Msgs |-> <<>>]
    /\ reaction_timestamps = <<>>
    /\ registered = [m \in Msgs |-> <<>>]
    /\ now = 0
    /\ nLate = 0
    /\ rec = [m \in Msgs |-> NoRec]
    /\ grants = {}
    /\ dms = {}
    /\ writes = {}
    /\ removals = {}
    /\ posts = {}
    /\ dmlog = {}
    /\ sheetlog = {}
    /\ role_removal_tasks = {}
    /\ roles = {}
    /\ revlog = {}
    /\ completions = {}
    /\ reply = "none"
    /\ stopped = FALSE

\* ------------------------------------------------------------ commands
is_running(l) == loopSt[l] \in {"waiting", "inround"}

\* every variable but the answer to the command
noReply == <<botVars, current_task, loopVars, nCreates, cmd, stopped, nMsgs, reactors,
             reaction_timestamps, registered, now, nLate, rec, effectVars>>

\* the range checks of /configure_settings, in the order of the code: the
\* answer sent to the caller, "ok" when every check passes
configure_error(interval, window, hours) ==
    IF interval < 1 THEN "interval"
    ELSE IF window < 1 \/ window > 60 THEN "window"
    ELSE IF hours < 1 \/ hours > 168 THEN "hours"
    ELSE "ok"

\* /configure_settings with arguments that pass the checks
ConfigureSettings(interval, window, hours, withSheet) ==
    /\ configure_error(interval, window, hours) = "ok"
    /\ interval_minutes' = interval
    /\ announce_channel' = TRUE
    /\ reaction_time' = window
    /\ role_removal_hours' = hours
    /\ sheet_url' = (sheet_url \/ withSheet)
    /\ reply' = "ok"
    /\ UNCHANGED <<total_tasks, current_task, winners_per_task, configured>>
    /\ UNCHANGED <<loopVars, nCreates, cmd, stopped, effectVars>>
    /\ UNCHANGED <<nMsgs, reactors, reaction_timestamps, registered, now, nLate, rec>>

\* mutant of ConfigureSettingsRejected: the interval is stored before the checks
ConfigureSettingsStoresFirst(interval, window, hours) ==
    /\ configure_error(interval, window, hours) # "ok"
    /\ reply' = configure_error(interval, window, hours)
    /\ interval_minutes' = interval
    /\ UNCHANGED <<total_tasks, current_task, winners_per_task, configured,
                   announce_channel, sheet_url, reaction_time, role_removal_hours>>
    /\ UNCHANGED <<loopVars, nCreates, cmd, stopped, effectVars>>
    /\ UNCHANGED <<nMsgs, reactors, reaction_timestamps, registered, now, nLate, rec>>

\* /configure_settings with an argument out of range: the early return
ConfigureSettingsRejected(interval, window, hours) ==
    /\ configure_error(interval, window, hours) # "ok"
    /\ reply' = configure_error(interval, window, hours)
    /\ UNCHANGED noReply

\* the checks of /create_task, in the order of the code
create_error(tasks, w) ==
    IF ~announce_channel THEN "nochannel"
    ELSE IF ~sheet_url THEN "nosheet"
    ELSE IF tasks <= 0 THEN "tasks"
    ELSE IF w <= 0 \/ w > 20 THEN "winners"
    ELSE "ok"

\* /create_task that fails a check: the early return
CreateTaskRejected(c, tasks, w) ==
    /\ cmd[c] = "idle"
    /\ create_error(tasks, w) # "ok"
    /\ reply' = create_error(tasks, w)
    /\ UNCHANGED noReply

\* /create_task up to its first await after the state is set
CreateTask(c, tasks, w) ==
    /\ cmd[c] = "idle"
    /\ nCreates < MaxCreates
    /\ create_error(tasks, w) = "ok"
    /\ total_tasks' = tasks
    /\ current_task' = 1
    /\ winners_per_task' = w
    /\ configured' = TRUE
    /\ cmd' = [cmd EXCEPT ![c] = "restart"]
    /\ nCreates' = nCreates + 1
    /\ stopped' = FALSE
    /\ reply' = "ok"
    /\ UNCHANGED <<announce_channel, sheet_url, settingVars, loopVars, effectVars>>
    /\ UNCHANGED <<nMsgs, reactors, reaction_timestamps, registered, now, nLate, rec>>

\* Loop.cancel(): the loop's task gets CancelledError at the await it is
\* suspended in; its round, if any, ends there
CancelledRec(r, cursor) == [Forget(r) EXCEPT !.status = "CANCELLED", !.after = cursor]

\* mutant of RestartCancel: the removal tasks are cancelled with the loop
RestartCancelAll(c) ==
    /\ cmd[c] = "restart"
    /\ cmd' = [cmd EXCEPT ![c] = "sleep"]
    /\ LET l == task_allocation_loop
       IN  IF is_running(l)
           THEN /\ loopSt' = [loopSt EXCEPT ![l] = "done"]
                /\ loopStop' = [loopStop EXCEPT ![l] = FALSE]
                /\ loopMsg' = [loopMsg EXCEPT ![l] = 0]
                /\ rec' = IF loopMsg[l] # 0
                          THEN [rec EXCEPT ![loopMsg[l]] = CancelledRec(@, current_task)]
                          ELSE rec
                /\ reactors' = IF loopMsg[l] # 0
                               THEN [reactors EXCEPT ![loopMsg[l]] = <<>>]
                               ELSE reactors
           ELSE UNCHANGED <<loopSt, loopStop, loopMsg, rec, reactors>>
    /\ role_removal_tasks' = {}
    /\ UNCHANGED <<botVars, current_task, task_allocation_loop, nLoops, nCreates, reply,
                   stopped>>
    /\ UNCHANGED <<nMsgs, reaction_timestamps, registered, now, nLate>>
    /\ UNCHANGED <<grants, dms, writes, removals, posts, dmlog, sheetlog, roles, revlog,
                   completions>>

\* restart_task_loop up to its sleep
RestartCancel(c) ==
    /\ cmd[c] = "restart"
    /\ cmd' = [cmd EXCEPT ![c] = "sleep"]
    /\ LET l == task_allocation_loop
       IN  IF is_running(l)
           THEN /\ loopSt' = [loopSt EXCEPT ![l] = "done"]
                /\ loopStop' = [loopStop EXCEPT ![l] = FALSE]
                /\ loopMsg' = [loopMsg EXCEPT ![l] = 0]
                /\ rec' = IF loopMsg[l] # 0
                          THEN [rec EXCEPT ![loopMsg[l]] = CancelledRec(@, current_task)]
                          ELSE rec
                /\ reactors' = IF loopMsg[l] # 0
                               THEN [reactors EXCEPT ![loopMsg[l]] = <<>>]
                               ELSE reactors
           ELSE UNCHANGED <<loopSt, loopStop, loopMsg, rec, reactors>>
    /\ UNCHANGED <<botVars, current_task, task_allocation_loop, nLoops, nCreates, reply,
                   stopped>>
    /\ UNCHANGED <<nMsgs, reaction_timestamps, registered, now, nLate, effectVars>>

\* restart_task_loop after its sleep
RestartInstall(c) ==
    /\ cmd[c] = "sleep"
    /\ cmd' = [cmd EXCEPT ![c] = "idle"]
    /\ nLoops' = nLoops + 1
    /\ task_allocation_loop' = nLoops + 1
    /\ loopSt' = [loopSt EXCEPT ![nLoops + 1] =
                     IF configured /\ announce_channel THEN "waiting" ELSE "new"]
    /\ UNCHANGED <<botVars, current_task, loopStop, loopMsg, nCreates, reply, stopped>>
    /\ UNCHANGED <<nMsgs, reactors, reaction_timestamps, registered, now, nLate, rec,
                   effectVars>>

\* mutant of StopTasks: the loop is cancelled as restart_task_loop cancels it
StopTasksCancel ==
    /\ is_running(task_allocation_loop)
    /\ LET l == task_allocation_loop
       IN  /\ loopSt' = [loopSt EXCEPT ![l] = "done"]
           /\ loopMsg' = [loopMsg EXCEPT ![l] = 0]
           /\ rec' = IF loopMsg[l] # 0
                     THEN [rec EXCEPT ![loopMsg[l]] = CancelledRec(@, current_task)]
                     ELSE rec
           /\ reactors' = IF loopMsg[l] # 0 THEN [reactors EXCEPT ![loopMsg[l]] = <<>>]
                          ELSE reactors
    /\ configured' = FALSE
    /\ stopped' = TRUE
    /\ UNCHANGED <<total_tasks, current_task, winners_per_task, announce_channel, sheet_url,
                   settingVars>>
    /\ UNCHANGED <<task_allocation_loop, loopStop, nLoops, nCreates, cmd, reply, effectVars>>
    /\ UNCHANGED <<nMsgs, reaction_timestamps, registered, now, nLate>>

\* mutant of StopTasks: only Loop.stop() is called
StopTasksLoopOnly ==
    /\ is_running(task_allocation_loop)
    /\ loopStop' = [loopStop EXCEPT ![task_allocation_loop] = TRUE]
    /\ stopped' = TRUE
    /\ UNCHANGED <<botVars, current_task>>
    /\ UNCHANGED <<task_allocation_loop, loopSt, loopMsg, nLoops, nCreates, cmd, reply,
                   effectVars>>
    /\ UNCHANGED <<nMsgs, reactors, reaction_timestamps, registered, now, nLate, rec>>

\* /stop_tasks
StopTasks ==
    /\ is_running(task_allocation_loop)
    /\ loopStop' = [loopStop EXCEPT ![task_allocation_loop] = TRUE]
    /\ configured' = FALSE
    /\ stopped' = TRUE
    /\ UNCHANGED <<total_tasks, current_task, winners_per_task, announce_channel, sheet_url,
                   settingVars>>
    /\ UNCHANGED <<task_allocation_loop, loopSt, loopMsg, nLoops, nCreates, cmd, reply,
                   effectVars>>
    /\ UNCHANGED <<nMsgs, reactors, reaction_timestamps, registered, now, nLate, rec>>

\* ---------------------------------------------------------------- loop
\* what Loop._loop does when the coroutine returns
AfterCoro(st, stop, l) ==
    /\ loopSt' = [st EXCEPT ![l] = IF stop[l] THEN "done" ELSE "waiting"]
    /\ loopStop' = [stop EXCEPT ![l] = FALSE]

\* a tick that returns at once: nothing is configured
TickIdle(l) ==
    /\ loopSt[l] = "waiting"
    /\ ~(configured /\ announce_channel)
    /\ AfterCoro(loopSt, loopStop, l)
    /\ UNCHANGED <<botVars, current_task, task_allocation_loop, loopMsg, nLoops>>
    /\ UNCHANGED <<cmdVars, effectVars>>
    /\ UNCHANGED <<nMsgs, reactors, reaction_timestamps, registered, now, nLate, rec>>

\* what Loop._loop does when the coroutine raises an exception that is not
\* one of its connection errors: the loop's task ends, failed() is true
CoroRaised(st, stop, l) ==
    /\ loopSt' = [st EXCEPT ![l] = "failed"]
    /\ loopStop' = [stop EXCEPT ![l] = FALSE]

\* a tick that finds the allocation complete: the completion announcement
\* (sent says whether announce_channel.send returns or raises), then
\* self.task_allocation_loop.stop(); the branch is outside the try block
TickComplete(l, sent) ==
    /\ loopSt[l] = "waiting"
    /\ configured /\ announce_channel
    /\ current_task > total_tasks
    /\ IF sent
       THEN LET inst == task_allocation_loop
                stop == IF is_running(inst) THEN [loopStop EXCEPT ![inst] = TRUE]
                        ELSE loopStop
            IN  /\ AfterCoro(loopSt, stop, l)
                /\ completions' = completions \cup {l}
       ELSE /\ CoroRaised(loopSt, loopStop, l)
            /\ UNCHANGED completions
    /\ UNCHANGED <<botVars, current_task, task_allocation_loop, loopMsg, nLoops>>
    /\ UNCHANGED <<cmdVars, grants, dms, writes, removals, posts, dmlog, sheetlog, roleVars>>
    /\ UNCHANGED <<nMsgs, reactors, reaction_timestamps, registered, now, nLate, rec>>

\* a tick that opens a round: the announcement is posted, its bucket made,
\* and the bot puts its own reaction on it, whose event reaches the listener
OpenRound(l) ==
    /\ loopSt[l] = "waiting"
    /\ configured /\ announce_channel
    /\ current_task <= total_tasks
    /\ nMsgs < MaxMsgs
    /\ LET m == nMsgs + 1
       IN  /\ nMsgs' = m
           /\ rec' = [rec EXCEPT ![m] = [NoRec EXCEPT !.pc = "window", !.loop = l,
                                            !.start = current_task,
                                            !.want = winners_per_task,
                                            !.status = "OPEN"]]
           /\ reaction_timestamps' =
                 on_reaction_add([x \in (DOMAIN reaction_timestamps) \cup {m} |->
                                     IF x = m THEN <<>> ELSE reaction_timestamps[x]],
                                 m, Bot, now)
           /\ registered' = Register(registered, m, Bot)
           /\ loopMsg' = [loopMsg EXCEPT ![l] = m]
           /\ loopSt' = [loopSt EXCEPT ![l] = "inround"]
    /\ UNCHANGED <<botVars, current_task, task_allocation_loop, loopStop, nLoops>>
    /\ UNCHANGED <<cmdVars, effectVars, reactors, now, nLate>>

\* the round of loop l returns: Loop._loop takes over
EndRound(l, m, r, status, cursor) ==
    /\ rec' = [rec EXCEPT ![m] = [Forget(r) EXCEPT !.status = status, !.after = cursor]]
    /\ reactors' = [reactors EXCEPT ![m] = <<>>]
    /\ loopMsg' = [loopMsg EXCEPT ![l] = 0]
    /\ AfterCoro(loopSt, loopStop, l)

\* the window is over: fetch_message, the reactors, the winners
Resolve(l, fetch, t) ==
    /\ loopSt[l] = "inround"
    /\ rec[loopMsg[l]].pc = "window"
    /\ t >= now
    /\ LET m == loopMsg[l]
           rs == non_bot(users(m))
           reads == fetch = "ok" /\ \E j \in 1..Len(rs) : rs[j] \notin DOMAIN Bucket(m)
       IN  /\ reads \/ t = now
           /\ now' = t
           /\ CASE fetch \in {"notfound", "httperr"} ->
                    /\ reaction_timestamps' = DropBucket(reaction_timestamps, m)
                    /\ registered' = [registered EXCEPT ![m] = <<>>]
                    /\ EndRound(l, m, rec[m], "ABORTED", current_task)
               [] fetch = "nocheck" ->
                    /\ EndRound(l, m, rec[m], "NOCHECK", current_task)
                    /\ UNCHANGED <<reaction_timestamps, registered>>
               [] OTHER ->
                    /\ rec' = [rec EXCEPT
                          ![m].fetched = rs,
                          ![m].stamps = Bucket(m),
                          ![m].sortnow = t,
                          ![m].winners = IF rs = <<>> THEN <<>>
                                         ELSE SelectWinners(rs, Bucket(m), t, rec[m].want),
                          ![m].pc = IF rs = <<>> THEN "announce" ELSE "process"]
                    /\ UNCHANGED <<reaction_timestamps, registered, reactors, loopSt,
                                   loopStop, loopMsg>>
    /\ UNCHANGED <<botVars, current_task, task_allocation_loop, nLoops>>
    /\ UNCHANGED <<cmdVars, effectVars, nMsgs, nLate>>

\* mutant of TaskNumber: every winner of the round gets the starting number
TaskNumberSame(start, i) == start

\* current_task_num = starting_task_num + i (i counts from 0 in the code)
TaskNumber(start, i) == start + (i - 1)

\* mutant of AdvanceCursor: the cursor moves by the number of winners
AdvanceCursorByCount(cursor, assigned) == cursor + Len(assigned)

\* mutant of AdvanceCursor: the cursor moves after every winners loop
AdvanceCursorAlways(cursor, assigned) == cursor + 1

\* self.current_task after the winners loop
AdvanceCursor(cursor, assigned) == IF assigned # <<>> THEN cursor + 1 ELSE cursor

\* the cursor after one turn of the winners loop: the increment comes after
\* the loop, so only the last turn is followed by it
CursorAfter(cursor, last, assigned) ==
    IF last THEN AdvanceCursor(cursor, assigned) ELSE cursor

\* ---------------------------------------------------------- role removal
\* asyncio.create_task(self.schedule_role_removal(member, role)): the task
\* sleeps role_removal_hours from the time t it is created
schedule_role_removal(id, user, t, hours) ==
    [id |-> id, user |-> user, at |-> t, due |-> t + hours]

\* mutant of discard: the done callback leaves the task in the set
discard_nothing(tasks, x) == tasks

\* removal_task.add_done_callback(self._role_removal_tasks.discard)
discard(tasks, x) == tasks \ {x}

\* mutant of StillHolds: the role is removed without the test
StillHoldsAlways(user, holders) == TRUE

\* if role in member.roles
StillHolds(user, holders) == user \in holders

\* ------------------------------------------------------- write_to_sheet
NoWrite == [attempts |-> 0, sleeps |-> <<>>, updates |-> 0, written |-> FALSE, norow |-> FALSE]

\* mutant of RowMissing: the header row is not counted
RowMissingNoHeader(task_number, rows) == task_number > rows

\* if task_number + 1 > len(worksheet.get_all_values())
RowMissing(task_number, rows) == task_number + 1 > rows

\* mutant of Backoff: a sleep follows every failed attempt
BackoffAlways(attempt, sleeps) == Append(sleeps, 2 ^ attempt)

\* if attempt < 2: await asyncio.sleep(2 ** attempt)
Backoff(attempt, sleeps) == IF attempt < 2 THEN Append(sleeps, 2 ^ attempt) ELSE sleeps

\* the attempts of write_to_sheet from `attempt` on; results[k] says how far
\* attempt k gets when the row exists: "openfail" raises before the row
\* check, "updatefail" raises in update_cell, "ok" writes the cell
RECURSIVE SheetAttempt(_, _, _, _, _)
SheetAttempt(task_number, rows, results, attempt, log) ==
    IF attempt >= SheetAttempts THEN log
    ELSE LET made == [log EXCEPT !.attempts = @ + 1]
             failed == [made EXCEPT !.sleeps = Backoff(attempt, @)]
         IN  IF results[attempt + 1] = "openfail"
             THEN SheetAttempt(task_number, rows, results, attempt + 1, failed)
             ELSE IF RowMissing(task_number, rows)
             THEN [made EXCEPT !.norow = TRUE]
             ELSE IF results[attempt + 1] = "updatefail"
             THEN SheetAttempt(task_number, rows, results, attempt + 1,
                               [failed EXCEPT !.updates = @ + 1])
             ELSE [made EXCEPT !.updates = @ + 1, !.written = TRUE]

\* write_to_sheet: what the call did; it never raises
write_to_sheet(task_number, url, rows, results) ==
    IF ~url THEN NoWrite ELSE SheetAttempt(task_number, rows, results, 0, NoWrite)

\* ------------------------------------------------------------ dm_winner
\* dm_winner: send is what winner_member.send does ("ok", or it raises
\* Forbidden, HTTPException, or something else); public lists the posts sent
\* to the announce channel, delivered says whether the post went through
\* (when it raises, the outer handler of dm_winner returns False)
dm_winner(task_number, url, channel, send, fallback) ==
    LET posted == send \in {"forbidden", "http"} /\ channel
    IN  [sent |-> send = "ok", dm |-> <<task_number, url>>,
         public |-> IF posted THEN << <<task_number, url>> >> ELSE <<>>,
         delivered |-> posted /\ fallback]

\* ------------------------------------------------------- winner pipeline
\* What the bot meets while it processes one winner: member is what
\* get_member_safely and guild.members give, pre the role and the two
\* permission tests, grant what add_roles does, post whether the first and
\* the second error post go through, send and fallback are dm_winner's,
\* rows and results write_to_sheet's, confirm whether the role shows in
\* winner_member.roles afterwards.
OkPath == [member |-> "ok", pre |-> "ok", grant |-> "ok", post |-> <<TRUE, TRUE>>,
           send |-> "ok", fallback |-> TRUE, rows |-> MaxTasks + MaxWinners,
           results |-> [j \in 1..SheetAttempts |-> "ok"], confirm |-> TRUE]

PostSeqs == {<<TRUE, TRUE>>, <<FALSE, TRUE>>, <<FALSE, FALSE>>}

\* the paths tried where removal tasks fire: a winner processed to the end
\* and a winner whose add_roles raises
GrantOutcomes == {OkPath, [OkPath EXCEPT !.grant = "forbidden"]}

\* the paths the allocation-level specifications try: a winner processed to
\* the end, a winner who left the guild, and the same with the error post
\* about it failing
Outcomes ==
    {OkPath,
     [OkPath EXCEPT !.member = "none"],
     [OkPath EXCEPT !.member = "none", !.post = <<FALSE, TRUE>>]}

\* every path through the processing of one winner
AllOutcomes ==
    {[OkPath EXCEPT !.member = x, !.post = ps] : x \in {"none", "absent"}, ps \in PostSeqs}
    \cup {[OkPath EXCEPT !.pre = x, !.post = ps] :
             x \in {"rolerr", "noperm", "lowrole"}, ps \in PostSeqs}
    \cup {[OkPath EXCEPT !.grant = x, !.post = ps] :
             x \in {"forbidden", "http", "other"}, ps \in PostSeqs}
    \cup {[OkPath EXCEPT !.confirm = FALSE, !.post = ps] : ps \in PostSeqs}
    \cup {[OkPath EXCEPT !.send = x, !.fallback = f] :
             x \in {"forbidden", "http", "other"}, f \in BOOLEAN}
    \cup {[OkPath EXCEPT !.rows = n, !.results = rs] :
             n \in Rows, rs \in [1..SheetAttempts -> {"openfail", "updatefail", "ok"}]}

\* an error post made inside the try block: when it raises, the handler of
\* the block posts in its turn
InTryPost(kind, ps) ==
    IF ps[1] THEN [made |-> {kind}, escaped |-> FALSE]
    ELSE IF ps[2] THEN [made |-> {"http"}, escaped |-> FALSE]
    ELSE [made |-> {}, escaped |-> TRUE]

\* an error post made outside the try block or in one of its handlers: when
\* it raises, nothing catches the exception before the round's own handler
HandlerPost(kind, ps) ==
    IF ps[1] THEN [made |-> {kind}, escaped |-> FALSE]
    ELSE [made |-> {}, escaped |-> TRUE]

\* add_roles is called and returns
Granted(p) == p.member = "ok" /\ p.pre = "ok" /\ p.grant = "ok"

\* the error posts of one winner, and whether an exception leaves the loop
ErrorPosts(p) ==
    IF p.member = "none" THEN HandlerPost("notfound", p.post)
    ELSE IF p.member = "absent" THEN InTryPost("absent", p.post)
    ELSE IF p.pre = "rolerr" THEN HandlerPost("forbidden", p.post)
    ELSE IF p.pre \in {"noperm", "lowrole"} THEN InTryPost(p.pre, p.post)
    ELSE IF p.grant # "ok" THEN HandlerPost(p.grant, p.post)
    ELSE IF ~p.confirm THEN InTryPost("unconfirmed", p.post)
    ELSE [made |-> {}, escaped |-> FALSE]

\* one turn of the winners loop; after the last winner the cursor moves; an
\* exception that leaves the loop ends the round in its `except Exception`
ProcessWinner(l, p) ==
    /\ loopSt[l] = "inround"
    /\ rec[loopMsg[l]].pc = "process"
    /\ LET m == loopMsg[l]
           r == rec[m]
           w == r.winners[r.i]
           t == TaskNumber(r.start, r.i)
           last == (r.i = Len(r.winners))
           ok == Granted(p)
           err == ErrorPosts(p)
           dm == dm_winner(t, sheet_url, announce_channel, p.send, p.fallback)
           sh == write_to_sheet(t, sheet_url, p.rows, p.results)
           assigned == IF ok THEN Append(r.assigned, <<w, t>>) ELSE r.assigned
           r1 == [r EXCEPT !.i = r.i + 1,
                           !.oks = Append(r.oks, ok),
                           !.assigned = assigned,
                           !.pc = IF last THEN "announce" ELSE "process"]
       IN  /\ grants' = IF ok THEN grants \cup {<<m, w, t>>} ELSE grants
           /\ roles' = IF ok THEN roles \cup {w} ELSE roles
           /\ removals' = IF ok THEN removals \cup {<<m, w, t>>} ELSE removals
           /\ role_removal_tasks' =
                 IF ok THEN role_removal_tasks \cup
                            {schedule_role_removal(<<m, w, t>>, w, now, role_removal_hours)}
                 ELSE role_removal_tasks
           /\ dms' = IF ok THEN dms \cup {<<m, w, t>>} ELSE dms
           /\ dmlog' = IF ok THEN dmlog \cup {[msg |-> m, user |-> w, task |-> t,
                                              send |-> p.send, did |-> dm]}
                       ELSE dmlog
           /\ writes' = IF ok THEN writes \cup {<<m, w, t>>} ELSE writes
           /\ sheetlog' = IF ok THEN sheetlog \cup {[msg |-> m, user |-> w, task |-> t,
                                                    rows |-> p.rows, did |-> sh]}
                          ELSE sheetlog
           /\ posts' = posts \cup {<<m, w, k>> : k \in err.made}
           /\ IF err.escaped
              THEN /\ EndRound(l, m, r1, "ERROR", current_task)
                   /\ UNCHANGED current_task
              ELSE /\ rec' = [rec EXCEPT ![m] = r1]
                   /\ current_task' = CursorAfter(current_task, last, assigned)
                   /\ UNCHANGED <<loopSt, loopStop, loopMsg, reactors>>
    /\ UNCHANGED <<botVars, task_allocation_loop, nLoops, cmdVars, revlog, completions>>
    /\ UNCHANGED <<nMsgs, reaction_timestamps, registered, now, nLate>>

\* the results (or "No Claims") announcement, then the cleanup of the bucket;
\* sent says whether announce_channel.send returns or raises: when it raises
\* the round ends in its `except Exception`, before the cleanup
Announce(l, sent) ==
    /\ loopSt[l] = "inround"
    /\ rec[loopMsg[l]].pc = "announce"
    /\ LET m == loopMsg[l]
           r == rec[m]
           status == IF r.fetched = <<>> THEN "EMPTY"
                     ELSE IF r.assigned # <<>> THEN "DISPATCHED" ELSE "FAILED"
       IN  IF sent
           THEN /\ reaction_timestamps' = DropBucket(reaction_timestamps, m)
                /\ registered' = [registered EXCEPT ![m] = <<>>]
                /\ EndRound(l, m, r, status, current_task)
           ELSE /\ EndRound(l, m, r, "ERROR", current_task)
                /\ UNCHANGED <<reaction_timestamps, registered>>
    /\ UNCHANGED <<botVars, current_task, task_allocation_loop, nLoops>>
    /\ UNCHANGED <<cmdVars, effectVars, nMsgs, now, nLate>>

\* the sleep of a removal task is over (at its due time, or now when that is
\* past): the role is removed if the member still holds it (ok says whether
\* remove_roles returns or raises), and the done callback drops the task
FireRemoval(x, ok) ==
    /\ x \in role_removal_tasks
    /\ LET at == Max(now, x.due)
           held == x.user \in roles
           called == StillHolds(x.user, roles)
       IN  /\ ok \/ called
           /\ now' = at
           /\ roles' = IF called /\ ok THEN roles \ {x.user} ELSE roles
           /\ revlog' = revlog \cup {[id |-> x.id, user |-> x.user, due |-> x.due,
                                      at |-> at, held |-> held,
                                      calls |-> IF called THEN 1 ELSE 0,
                                      removed |-> called /\ ok]}
    /\ role_removal_tasks' = discard(role_removal_tasks, x)
    /\ UNCHANGED <<botVars, current_task, loopVars, cmdVars>>
    /\ UNCHANGED <<grants, dms, writes, removals, posts, dmlog, sheetlog, completions>>
    /\ UNCHANGED <<nMsgs, reactors, reaction_timestamps, registered, nLate, rec>>

\* ------------------------------------------------- the single-winner bot
\* src/task_bot.py shares the listener, the loop handling, write_to_sheet,
\* dm_winner and schedule_role_removal with the multi-winner bot; its
\* /create_task takes the sheet link and has no winners_per_task, and its
\* round is the one below.

\* /create_task of the single-winner bot up to its first await after the
\* state is set
CreateTaskV1(c, tasks) ==
    /\ cmd[c] = "idle"
    /\ nCreates < MaxCreates
    /\ announce_channel
    /\ tasks > 0
    /\ total_tasks' = tasks
    /\ sheet_url' = TRUE
    /\ current_task' = 1
    /\ configured' = TRUE
    /\ cmd' = [cmd EXCEPT ![c] = "restart"]
    /\ nCreates' = nCreates + 1
    /\ stopped' = FALSE
    /\ reply' = "ok"
    /\ UNCHANGED <<winners_per_task, announce_channel, settingVars, loopVars, effectVars>>
    /\ UNCHANGED <<nMsgs, reactors, reaction_timestamps, registered, now, nLate, rec>>

\* the window is over: fetch_message, the reactors, the winner
ResolveV1(l, fetch) ==
    /\ loopSt[l] = "inround"
    /\ rec[loopMsg[l]].pc = "window"
    /\ LET m == loopMsg[l]
           rs == non_bot(users(m))
       IN  CASE fetch \in {"notfound", "httperr"} ->
                 /\ reaction_timestamps' = DropBucket(reaction_timestamps, m)
                 /\ registered' = [registered EXCEPT ![m] = <<>>]
                 /\ EndRound(l, m, rec[m], "ABORTED", current_task)
            [] fetch = "nocheck" ->
                 /\ EndRound(l, m, rec[m], "NOCHECK", current_task)
                 /\ UNCHANGED <<reaction_timestamps, registered>>
            [] OTHER ->
                 /\ rec' = [rec EXCEPT
                       ![m].fetched = rs,
                       ![m].stamps = Bucket(m),
                       ![m].winners = IF rs = <<>> THEN <<>>
                                      ELSE <<SelectWinnerV1(rs, Bucket(m))>>,
                       ![m].pc = "announce"]
                 /\ UNCHANGED <<reaction_timestamps, registered, reactors, loopSt,
                                loopStop, loopMsg>>
    /\ UNCHANGED <<botVars, current_task, task_allocation_loop, nLoops>>
    /\ UNCHANGED <<cmdVars, effectVars, nMsgs, now, nLate>>

\* the winner is looked up in the guild (not found: an error post and the
\* round returns), then "Task Assigned!" is posted (sent says whether the
\* send returns or raises); the winner is processed after that
AnnounceV1(l, p, sent) ==
    /\ loopSt[l] = "inround"
    /\ rec[loopMsg[l]].pc = "announce"
    /\ rec[loopMsg[l]].fetched # <<>>
    /\ LET m == loopMsg[l]
           r == rec[m]
           w == r.winners[1]
           err == ErrorPosts(p)
       IN  IF p.member = "none"
           THEN /\ posts' = posts \cup {<<m, w, k>> : k \in err.made}
                /\ EndRound(l, m, r, IF err.escaped THEN "ERROR" ELSE "RETURNED",
                            current_task)
           ELSE IF ~sent
           THEN /\ EndRound(l, m, r, "ERROR", current_task)
                /\ UNCHANGED posts
           ELSE /\ rec' = [rec EXCEPT ![m].status = "DISPATCHED", ![m].pc = "process"]
                /\ UNCHANGED <<posts, reactors, loopSt, loopStop, loopMsg>>
    /\ UNCHANGED <<botVars, current_task, task_allocation_loop, nLoops, cmdVars>>
    /\ UNCHANGED <<grants, dms, writes, removals, dmlog, sheetlog, roleVars, completions>>
    /\ UNCHANGED <<nMsgs, reaction_timestamps, registered, now, nLate>>

\* the task number of the round's winner: self.current_task, read at each use
TaskNumberV1(cursor) == cursor

\* self.current_task += 1, after the ledger write
AdvanceCursorV1(cursor) == cursor + 1

\* a failed permission test posts its error and returns from the round
ReturnsV1(p) == p.member = "ok" /\ p.pre \in {"noperm", "lowrole"}

\* the winner is processed: the role, the removal task, the direct message;
\* then, unless the round returned or an exception left the try block, the
\* ledger write, the increment of the cursor and the cleanup of the bucket
ProcessWinnerV1(l, p) ==
    /\ loopSt[l] = "inround"
    /\ rec[loopMsg[l]].pc = "process"
    /\ p.member # "none"
    /\ LET m == loopMsg[l]
           r == rec[m]
           w == r.winners[1]
           t == TaskNumberV1(current_task)
           ok == Granted(p)
           err == ErrorPosts(p)
           goes == ~err.escaped /\ ~ReturnsV1(p)
           dm == dm_winner(t, sheet_url, announce_channel, p.send, p.fallback)
           sh == write_to_sheet(t, sheet_url, p.rows, p.results)
           r1 == [r EXCEPT !.i = r.i + 1,
                           !.oks = Append(r.oks, ok),
                           !.assigned = IF ok THEN Append(r.assigned, <<w, t>>)
                                        ELSE r.assigned]
       IN  /\ grants' = IF ok THEN grants \cup {<<m, w, t>>} ELSE grants
           /\ roles' = IF ok THEN roles \cup {w} ELSE roles
           /\ removals' = IF ok THEN removals \cup {<<m, w, t>>} ELSE removals
           /\ role_removal_tasks' =
                 IF ok THEN role_removal_tasks \cup
                            {schedule_role_removal(<<m, w, t>>, w, now, role_removal_hours)}
                 ELSE role_removal_tasks
           /\ dms' = IF ok THEN dms \cup {<<m, w, t>>} ELSE dms
           /\ dmlog' = IF ok THEN dmlog \cup {[msg |-> m, user |-> w, task |-> t,
                                              send |-> p.send, did |-> dm]}
                       ELSE dmlog
           /\ writes' = IF goes THEN writes \cup {<<m, w, t>>} ELSE writes
           /\ sheetlog' = IF goes THEN sheetlog \cup {[msg |-> m, user |-> w, task |-> t,
                                                      rows |-> p.rows, did |-> sh]}
                          ELSE sheetlog
           /\ posts' = posts \cup {<<m, w, k>> : k \in err.made}
           /\ IF goes
              THEN /\ current_task' = AdvanceCursorV1(current_task)
                   /\ reaction_timestamps' = DropBucket(reaction_timestamps, m)
                   /\ registered' = [registered EXCEPT ![m] = <<>>]
                   /\ EndRound(l, m, r1, "DISPATCHED", AdvanceCursorV1(current_task))
              ELSE /\ EndRound(l, m, r1, IF err.escaped THEN "ERROR" ELSE "RETURNED",
                               current_task)
                   /\ UNCHANGED <<current_task, reaction_timestamps, registered>>
    /\ UNCHANGED <<botVars, task_allocation_loop, nLoops, cmdVars, revlog, completions>>
    /\ UNCHANGED <<nMsgs, now, nLate>>

\* ------------------------------------------------------ reaction events
\* a member adds the claim reaction during the window; the gateway event
\* reaches on_reaction_add at time t unless it is lost (heard = FALSE)
React(m, u, heard, t) ==
    /\ rec[m].pc = "window"
    /\ u \notin Range(reactors[m])
    /\ t >= now
    /\ (heard /\ u \notin DOMAIN Bucket(m)) \/ t = now
    /\ now' = t
    /\ reactors' = [reactors EXCEPT ![m] = Append(@, u)]
    /\ reaction_timestamps' = IF heard THEN on_reaction_add(reaction_timestamps, m, u, t)
                              ELSE reaction_timestamps
    /\ registered' = IF heard THEN Register(registered, m, u) ELSE registered
    /\ UNCHANGED <<botVars, current_task, loopVars, cmdVars, effectVars>>
    /\ UNCHANGED <<nMsgs, nLate, rec>>

\* a member takes the claim reaction back during the window
Unreact(m, u) ==
    /\ rec[m].pc = "window"
    /\ u \in Range(reactors[m])
    /\ reactors' = [reactors EXCEPT ![m] = Without(@, u)]
    /\ UNCHANGED <<botVars, current_task, loopVars, cmdVars, effectVars>>
    /\ UNCHANGED <<nMsgs, reaction_timestamps, registered, now, nLate, rec>>

\* a reaction event for an announcement whose window is over
LateReaction(m, u, t) ==
    /\ rec[m].pc \in {"process", "announce", "done"}
    /\ nLate < MaxLate
    /\ t >= now
    /\ u \notin DOMAIN Bucket(m) \/ t = now
    /\ now' = t
    /\ nLate' = nLate + 1
    /\ reaction_timestamps' = on_reaction_add(reaction_timestamps, m, u, t)
    /\ registered' = Register(registered, m, u)
    /\ UNCHANGED <<botVars, current_task, loopVars, cmdVars, effectVars>>
    /\ UNCHANGED <<nMsgs, reactors, rec>>

\* a member puts the claim emoji on a message that is not an announcement:
\* the listener does not look at what the message is
ForeignReaction(u, t) ==
    /\ nLate < MaxLate
    /\ t >= now
    /\ u \notin DOMAIN Bucket(OtherMsg) \/ t = now
    /\ now' = t
    /\ nLate' = nLate + 1
    /\ reaction_timestamps' = on_reaction_add(reaction_timestamps, OtherMsg, u, t)
    /\ UNCHANGED <<botVars, current_task, loopVars, cmdVars, effectVars>>
    /\ UNCHANGED <<nMsgs, reactors, registered, rec>>

\* ------------------------------------------------------- specifications
\* The whole bot: overlapping commands, several loop objects, two members.
Next ==
    \/ \E s \in BOOLEAN : ConfigureSettings(4, 5, 12, s)
    \/ \E c \in Cmds, n \in 1..(MaxTasks - 1), w \in 1..MaxWinners : CreateTask(c, n, w)
    \/ \E c \in Cmds : RestartCancel(c)
    \/ \E c \in Cmds : RestartInstall(c)
    \/ StopTasks
    \/ \E l \in Loops : TickIdle(l)
    \/ \E l \in Loops : TickComplete(l, TRUE)
    \/ \E l \in Loops : nMsgs < MaxMsgs - 1 /\ OpenRound(l)
    \/ \E l \in Loops, f \in Fetches : Resolve(l, f, now)
    \/ \E l \in Loops, o \in Outcomes : ProcessWinner(l, o)
    \/ \E l \in Loops : Announce(l, TRUE)
    \/ \E m \in Msgs, u \in 1..(MaxUsers - 1) : React(m, u, TRUE, now)

Spec == Init /\ [][Next]_vars

\* One allocation: a single /create_task, every member, a clock that moves.
NextRound ==
    \/ ConfigureSettings(4, 5, 12, TRUE)
    \/ \E n \in 1..MaxTasks, w \in 1..MaxWinners : nCreates = 0 /\ CreateTask(1, n, w)
    \/ RestartCancel(1)
    \/ RestartInstall(1)
    \/ StopTasks
    \/ \E l \in Loops : TickIdle(l)
    \/ \E l \in Loops, s \in BOOLEAN : TickComplete(l, s)
    \/ \E l \in Loops : nMsgs < 1 /\ OpenRound(l)
    \/ \E l \in Loops, f \in Fetches, t \in Times : Resolve(l, f, t)
    \/ \E l \in Loops, o \in Outcomes : ProcessWinner(l, o)
    \/ \E l \in Loops : Announce(l, TRUE)
    \/ \E m \in Msgs, u \in Users, h \in BOOLEAN, t \in Times : React(m, u, h, t)
    \/ \E m \in Msgs, u \in Users : Unreact(m, u)
    \/ \E m \in Msgs, u \in Users, t \in Times : LateReaction(m, u, t)

SpecRound == Init /\ [][NextRound]_vars

\* The allocation of the worked scenarios: one /create_task for MaxTasks tasks;
\* one claimant at most in the first round, none in the second, every member
\* at any time in the last.
NextScenario ==
    \/ ConfigureSettings(4, 5, 12, TRUE)
    \/ \E w \in 1..MaxWinners : nCreates = 0 /\ CreateTask(1, MaxTasks, w)
    \/ RestartCancel(1)
    \/ RestartInstall(1)
    \/ \E l \in Loops : OpenRound(l)
    \/ \E l \in Loops, f \in Fetches : Resolve(l, f, now)
    \/ \E l \in Loops, o \in Outcomes : ProcessWinner(l, o)
    \/ \E l \in Loops : Announce(l, TRUE)
    \/ \E u \in Users : reactors[1] = <<>> /\ React(1, u, TRUE, now)
    \/ \E u \in Users, t \in Times : React(MaxMsgs, u, TRUE, t)
    \/ \E u \in Users : Unreact(MaxMsgs, u)

SpecScenario == Init /\ [][NextScenario]_vars

\* The processing of winners: one /create_task, members who claim at once,
\* and every path through the processing of each winner.
NextWinners ==
    \/ ConfigureSettings(4, 5, 12, TRUE)
    \/ \E n \in 1..MaxTasks, w \in 1..MaxWinners : nCreates = 0 /\ CreateTask(1, n, w)
    \/ RestartCancel(1)
    \/ RestartInstall(1)
    \/ \E l \in Loops : nMsgs < 1 /\ OpenRound(l)
    \/ \E l \in Loops, f \in Fetches : Resolve(l, f, now)
    \/ \E l \in Loops, p \in AllOutcomes : ProcessWinner(l, p)
    \/ \E l \in Loops, s \in BOOLEAN : Announce(l, s)
    \/ \E m \in Msgs, u \in 1..(MaxUsers - 1) : React(m, u, TRUE, now)

SpecWinners == Init /\ [][NextWinners]_vars

\* Role removal: one /create_task, two rounds at most, a clock that moves, and
\* the removal tasks, which fire when their sleep is over.
NextRevoke ==
    \/ \E h \in 1..MaxHours : nCreates = 0 /\ ConfigureSettings(4, 5, h, TRUE)
    \/ \E w \in 1..MaxWinners : nCreates = 0 /\ CreateTask(1, MaxTasks, w)
    \/ RestartCancel(1)
    \/ RestartInstall(1)
    \/ StopTasks
    \/ \E l \in Loops : TickIdle(l)
    \/ \E l \in Loops : nMsgs < 2 /\ OpenRound(l)
    \/ \E l \in Loops : Resolve(l, "ok", now)
    \/ \E l \in Loops, p \in GrantOutcomes : ProcessWinner(l, p)
    \/ \E l \in Loops : Announce(l, TRUE)
    \/ \E m \in Msgs, u \in 1..(MaxUsers - 1), t \in Times : React(m, u, TRUE, t)
    \/ \E x \in role_removal_tasks, ok \in BOOLEAN : FireRemoval(x, ok)

SpecRevoke == Init /\ [][NextRevoke]_vars

\* a round is waiting for its window to end
InWindow == \E m \in Msgs : rec[m].pc = "window"

\* The single-winner bot: /create_task, once more while a round is in its
\* window, two rounds at most, members who claim at once, and every path
\* through the processing of the winner.
NextV1 ==
    \/ ConfigureSettings(4, 5, 12, FALSE)
    \/ \E n \in 1..MaxTasks : (nCreates = 0 \/ InWindow) /\ CreateTaskV1(1, n)
    \/ RestartCancel(1)
    \/ RestartInstall(1)
    \/ \E l \in Loops : TickComplete(l, TRUE)
    \/ \E l \in Loops : nMsgs < 2 /\ OpenRound(l)
    \/ \E l \in Loops, f \in Fetches : ResolveV1(l, f)
    \/ \E l \in Loops, s \in BOOLEAN :
          loopMsg[l] # 0 /\ rec[loopMsg[l]].fetched = <<>> /\ Announce(l, s)
    \/ \E l \in Loops, p \in Outcomes, s \in BOOLEAN : AnnounceV1(l, p, s)
    \/ \E l \in Loops, p \in AllOutcomes : ProcessWinnerV1(l, p)
    \/ \E m \in Msgs, u \in 1..(MaxUsers - 1) : React(m, u, TRUE, now)

SpecV1 == Init /\ [][NextV1]_vars

\* the removal task of member u for the role granted in round m, if there is one
RemovalOf(m, u) == {x \in role_removal_tasks : x.id[1] = m /\ x.user = u}

\* The removal tasks as asyncio runs them: allocations of one task for one
\* winner, /create_task and /stop_tasks at any time, two rounds at most; every
\* removal task, once created, gets to the end of its sleep as long as the
\* process runs.
NextLive ==
    \/ nCreates = 0 /\ ConfigureSettings(4, 5, 1, TRUE)
    \/ CreateTask(1, 1, 1)
    \/ RestartCancel(1)
    \/ RestartInstall(1)
    \/ StopTasks
    \/ \E l \in Loops : TickIdle(l)
    \/ \E l \in Loops : TickComplete(l, TRUE)
    \/ \E l \in Loops : nMsgs < 2 /\ OpenRound(l)
    \/ \E l \in Loops : Resolve(l, "ok", now)
    \/ \E l \in Loops, p \in GrantOutcomes : ProcessWinner(l, p)
    \/ \E l \in Loops : Announce(l, TRUE)
    \/ \E m \in Msgs, u \in 1..(MaxUsers - 1) : React(m, u, TRUE, now)
    \/ \E x \in role_removal_tasks, ok \in BOOLEAN : FireRemoval(x, ok)

SpecLive ==
    /\ Init /\ [][NextLive]_vars
    /\ \A m \in Msgs, u \in Users :
          WF_vars(\E x \in RemovalOf(m, u), ok \in BOOLEAN : FireRemoval(x, ok))

\* the announcements left after the round in flight are enough for the tasks
\* still to assign, should this round assign none
Slack == MaxMsgs - nMsgs >= total_tasks + 1 - current_task

\* what the loop's task and the command's coroutine do next, left to run: the
\* tick, the steps of the round, the two halves of restart_task_loop; a round
\* without a claimant, and a winner who cannot be given the role, are tried
\* only while enough announcements are left
Driver ==
    \/ RestartCancel(1)
    \/ RestartInstall(1)
    \/ \E l \in Loops, s \in BOOLEAN : TickComplete(l, s)
    \/ \E l \in Loops : OpenRound(l)
    \/ \E l \in Loops :
          loopMsg[l] # 0 /\ (reactors[loopMsg[l]] # <<>> \/ Slack) /\ Resolve(l, "ok", now)
    \/ \E l \in Loops, p \in GrantOutcomes : (Granted(p) \/ Slack) /\ ProcessWinner(l, p)
    \/ \E l \in Loops : Announce(l, TRUE)

\* a member claims in the window that is open
Claim == \E m \in Msgs, u \in 1..(MaxUsers - 1) : React(m, u, TRUE, now)

\* One allocation left to run to its end: a single /create_task, no
\* /stop_tasks, the loop ticking, and members who claim sooner or later.
NextComplete ==
    \/ ConfigureSettings(4, 5, 12, TRUE)
    \/ \E n \in 1..(MaxTasks - 1), w \in 1..MaxWinners : nCreates = 0 /\ CreateTask(1, n, w)
    \/ Driver
    \/ Claim

SpecComplete ==
    /\ Init /\ [][NextComplete]_vars
    /\ WF_vars(Driver)
    /\ WF_vars(Claim)

\* The listener beside the rounds: one /create_task, two rounds at most, every
\* external call of the rounds succeeding, and reaction events that arrive
\* during a window, after it, or for a message that is no announcement.
NextListener ==
    \/ ConfigureSettings(4, 5, 12, TRUE)
    \/ \E n \in 1..MaxTasks, w \in 1..MaxWinners : nCreates = 0 /\ CreateTask(1, n, w)
    \/ RestartCancel(1)
    \/ RestartInstall(1)
    \/ \E l \in Loops : nMsgs < 2 /\ OpenRound(l)
    \/ \E l \in Loops : Resolve(l, "ok", now)
    \/ \E l \in Loops : ProcessWinner(l, OkPath)
    \/ \E l \in Loops : Announce(l, TRUE)
    \/ \E m \in Msgs, u \in Users : React(m, u, TRUE, now)
    \/ \E m \in Msgs, u \in Users : LateReaction(m, u, now)
    \/ \E u \in Users : ForeignReaction(u, now)

SpecListener == Init /\ [][NextListener]_vars

\* the arguments tried where the commands validate them: the two sides of
\* every limit
IntervalArgs == {0, 1}
WindowArgs == {0, 1, 60, 61}
HoursArgs == {0, 1, 168, 169}
TaskArgs == {-1, 0, 1}
WinnerArgs == {0, 1, 20, 21}

\* The commands and their validation: every argument on both sides of its
\* limits, at any time, with the loop idle, waiting or in a round.
NextSettings ==
    \/ \E i \in IntervalArgs, w \in WindowArgs, h \in HoursArgs, s \in BOOLEAN :
          ConfigureSettings(i, w, h, s)
    \/ \E i \in IntervalArgs, w \in WindowArgs, h \in HoursArgs :
          ConfigureSettingsRejected(i, w, h)
    \/ \E n \in TaskArgs, w \in WinnerArgs : CreateTask(1, n, w)
    \/ \E n \in TaskArgs, w \in WinnerArgs : CreateTaskRejected(1, n, w)
    \/ RestartCancel(1)
    \/ RestartInstall(1)
    \/ StopTasks
    \/ \E l \in Loops : TickIdle(l)
    \/ \E l \in Loops : nMsgs < 1 /\ OpenRound(l)
    \/ \E l \in Loops : Resolve(l, "ok", now)
    \/ \E l \in Loops : Announce(l, TRUE)

SpecSettings == Init /\ [][NextSettings]_vars

\* ============================================================== claims
Opened(m) == rec[m].pc # "none"
InFlight(m) == rec[m].pc \in {"window", "process", "announce"}
Over(m) == rec[m].pc = "done"
Resolved(m) == rec[m].status \in {"EMPTY", "DISPATCHED", "FAILED"}

C2_OneRoundAtATime ==
    Cardinality({l \in Loops : loopSt[l] = "inround"}) <= 1

\* C3: a round that restart_task_loop found in flight (the model marks it
\* CANCELLED when the code cancels its loop) has reached DISPATCHED, EMPTY or
\* ABORTED, with its bucket discarded, by the time a loop installed later
\* has opened a round.
C3_RoundResolvesBeforeNewLoop ==
    \A m1, m2 \in Msgs :
        (/\ Opened(m1) /\ Opened(m2)
         /\ rec[m1].loop < rec[m2].loop
         /\ rec[m1].status = "CANCELLED")
        => (/\ rec[m1].status \in {"DISPATCHED", "EMPTY", "ABORTED"}
            /\ m1 \notin DOMAIN reaction_timestamps)

\* C4: a loop object never opens a round once a loop object installed after
\* it has been started.
C4_OldLoopNeverFires ==
    [][\A l \in Loops :
          (loopSt[l] = "waiting" /\ loopSt'[l] = "inround") =>
              \A k \in Loops : k > l => loopSt[k] = "new"]_vars

\* C5: after the first accepted /create_task, 1 <= current_task <= total_tasks + 1.
C5_CursorInRange ==
    nCreates > 0 => (1 <= current_task /\ current_task <= total_tasks + 1)

\* C6: the task numbers in winners_assigned are starting_task, starting_task + 1,
\* ... with no gap and no repeat.
C6_AssignedContiguous ==
    \A m \in Msgs :
        \A j \in 1..Len(rec[m].assigned) :
            rec[m].assigned[j][2] = rec[m].start + j - 1

\* what a round knows once the reactors are fetched and the winners chosen
Chosen(m) == rec[m].pc \in {"process", "announce"} /\ rec[m].fetched # <<>>
AllStamped(m) == \A u \in Range(rec[m].fetched) : u \in DOMAIN rec[m].stamps
DistinctStamps(m) ==
    \A u, v \in Range(rec[m].fetched) : u # v => rec[m].stamps[u] # rec[m].stamps[v]

\* C7: when every fetched reactor has a recorded timestamp and the timestamps
\* are pairwise distinct, the winners are the reactors in increasing order of
\* timestamp, cut to min(winners_per_task, number of reactors): every reactor
\* left out is later than every winner; the single-winner bot picks the
\* earliest reactor; and a round without reactors has no winner and ends as
\* an EMPTY round, not as a failure.
C7_WinnersInTimestampOrder ==
    \A m \in Msgs :
        /\ (Chosen(m) /\ AllStamped(m) /\ DistinctStamps(m)) =>
              LET ws == rec[m].winners
                  st == rec[m].stamps
              IN  /\ Len(ws) = Min(winners_per_task, Len(rec[m].fetched))
                  /\ Range(ws) \subseteq Range(rec[m].fetched)
                  /\ \A j \in 1..(Len(ws) - 1) : st[ws[j]] < st[ws[j + 1]]
                  /\ \A u \in Range(rec[m].fetched) \ Range(ws) :
                        \A j \in 1..Len(ws) : st[ws[j]] < st[u]
                  /\ \A u \in Range(rec[m].fetched) :
                        st[SelectWinnerV1(rec[m].fetched, st)] <= st[u]
        /\ (rec[m].pc = "announce" /\ rec[m].fetched = <<>>) =>
              (rec[m].winners = <<>> /\ rec[m].assigned = <<>>)
        /\ (Resolved(m) /\ rec[m].fetched = <<>>) => rec[m].status = "EMPTY"

\* three reactors, stamped at three different times, not fetched in the order
\* of their timestamps, two of them chosen
C7_Witness ==
    \E m \in Msgs :
        /\ Chosen(m) /\ AllStamped(m) /\ DistinctStamps(m)
        /\ Len(rec[m].fetched) = 3
        /\ Len(rec[m].winners) = 2
        /\ rec[m].winners[1] # rec[m].fetched[1]
        /\ rec[m].winners[2] # rec[m].fetched[2]

\* the worked scenario: total_tasks = 3, winners_per_task = 1; the first round
\* has the one claimant a, the second none, the third b and c with c stamped
\* before b; every winner is processed to the end
ScenarioRan(a, b, c) ==
    /\ total_tasks = 3 /\ winners_per_task = 1
    /\ Resolved(1) /\ rec[1].start = 1 /\ rec[1].fetched = <<a>> /\ rec[1].oks = <<TRUE>>
    /\ Resolved(2) /\ rec[2].fetched = <<>>
    /\ rec[3].pc = "announce" /\ Range(rec[3].fetched) = {b, c} /\ b # c
    /\ AllStamped(3) /\ rec[3].stamps[c] < rec[3].stamps[b]
    /\ rec[3].oks = <<TRUE>>

ScenarioOutcome(a, c) ==
    /\ rec[1].assigned = << <<a, 1>> >> /\ rec[1].after = 2
    /\ rec[2].start = 2 /\ rec[2].after = 2
    /\ rec[3].start = 2 /\ rec[3].winners = <<c>> /\ rec[3].assigned = << <<c, 2>> >>
    /\ current_task = 3
    /\ writes = {<<1, a, 1>>, <<3, c, 2>>}

\* C8: in the scenario a wins task 1 and the cursor goes from 1 to 2, the
\* empty round leaves it at 2, then c wins task 2 and the cursor goes to 3.
C8_ScenarioCursor ==
    \A a, b, c \in Users : ScenarioRan(a, b, c) => ScenarioOutcome(a, c)

\* the scenario with b fetched before c
C8_Witness ==
    \E a, b, c \in Users :
        ScenarioRan(a, b, c) /\ ScenarioOutcome(a, c) /\ rec[3].fetched = <<b, c>>

\* a round opened for two winners whose fetched reactors are d, e and f,
\* stamped in that order
ThreeClaims(m, d, e, f) ==
    /\ Chosen(m) /\ rec[m].want = 2
    /\ Range(rec[m].fetched) = {d, e, f} /\ Len(rec[m].fetched) = 3
    /\ AllStamped(m)
    /\ rec[m].stamps[d] < rec[m].stamps[e] /\ rec[m].stamps[e] < rec[m].stamps[f]

EffectsOf(m) == {x \in grants \cup dms \cup writes : x[1] = m}

\* C9: with winners_per_task = 2 and the claims of d, e, f stamped in that
\* order in a round opened at cursor n, the winners are d then e; whatever
\* role, direct message or ledger row the round produces is d's for task n
\* or e's for task n + 1, f gets none, and once both winners are processed
\* to the end d holds task n and e task n + 1 in all three.
C9_TwoWinnersOfThree ==
    \A m \in Msgs : \A d, e, f \in Users :
        ThreeClaims(m, d, e, f) =>
            LET n == rec[m].start
            IN  /\ rec[m].winners = <<d, e>>
                /\ EffectsOf(m) \subseteq {<<m, d, n>>, <<m, e, n + 1>>}
                /\ (rec[m].pc = "announce" /\ rec[m].oks = <<TRUE, TRUE>>) =>
                      /\ rec[m].assigned = << <<d, n>>, <<e, n + 1>> >>
                      /\ \A log \in {grants, dms, writes} :
                            {x \in log : x[1] = m} = {<<m, d, n>>, <<m, e, n + 1>>}

\* the case in a round that does not open at cursor 1
C9_Witness ==
    \E m \in Msgs : \E d, e, f \in Users :
        /\ ThreeClaims(m, d, e, f)
        /\ rec[m].start = 2
        /\ rec[m].pc = "announce"
        /\ rec[m].oks = <<TRUE, TRUE>>

\* C10: as long as a round's bucket exists, a participant's entry in it stays
\* and keeps the timestamp of the first event recorded for that participant:
\* no later event for the same participant and round changes it.
C10_FirstWriteWins ==
    [][\A m \in DOMAIN reaction_timestamps :
          m \in DOMAIN reaction_timestamps' =>
              \A u \in DOMAIN reaction_timestamps[m] :
                  /\ u \in DOMAIN reaction_timestamps'[m]
                  /\ reaction_timestamps'[m][u] = reaction_timestamps[m][u]]_vars

\* u was stamped before v and is listed after v: u took the reaction back and
\* added it again after v's event, and the bucket still holds u's first stamp
C10_Witness ==
    \E m \in Msgs : \E u, v \in Users :
        /\ rec[m].pc = "window"
        /\ reactors[m] = <<v, u>>
        /\ u \in DOMAIN Bucket(m) /\ v \in DOMAIN Bucket(m)
        /\ Bucket(m)[u] < Bucket(m)[v]

\* the winners of round m already taken through the winners loop
Done(m) == IF rec[m].pc \in {"process", "announce"} THEN 1..(rec[m].i - 1) ELSE {}
Posted(m, u, kinds) == \E k \in kinds : <<m, u, k>> \in posts

\* C11: for every winner taken through the winners loop whose role grant
\* succeeded, was skipped by a precondition or raised, write_to_sheet was
\* called with that winner's task number.
C11_LedgerWriteWhateverTheGrant ==
    \A m \in Msgs : \A j \in Done(m) :
        LET u == rec[m].winners[j]
            t == rec[m].start + j - 1
        IN  (<<m, u, t>> \in grants
             \/ Posted(m, u, {"noperm", "lowrole", "forbidden", "other"}))
            => <<m, u, t>> \in writes

\* C12: a round whose winners loop was entered takes every selected winner
\* through it, whatever failed for an earlier winner.
C12_LaterWinnersStillProcessed ==
    \A m \in Msgs :
        (Over(m) /\ rec[m].status \in {"DISPATCHED", "FAILED", "ERROR"})
        => Len(rec[m].oks) = Min(rec[m].want, Len(rec[m].fetched))

\* C13: for a winner whose grant precondition failed (the error about it is
\* posted in the announce channel), add_roles was not called and no removal
\* is scheduled, and dm_winner and write_to_sheet were called for the winner.
C13_PreconditionSkipsOnlyTheGrant ==
    \A m \in Msgs : \A j \in Done(m) :
        LET u == rec[m].winners[j]
            t == rec[m].start + j - 1
        IN  Posted(m, u, {"noperm", "lowrole"})
            => /\ <<m, u, t>> \notin grants
               /\ <<m, u, t>> \notin removals
               /\ <<m, u, t>> \in dms
               /\ <<m, u, t>> \in writes

\* C14: a dm_winner call whose direct message failed sent exactly one post to
\* the announce channel, with the task number and the link of the direct
\* message; a call whose direct message went through sent none.
C14_OneFallbackPost ==
    \A e \in dmlog :
        IF e.did.sent THEN e.did.public = <<>>
        ELSE e.did.public = <<e.did.dm>>

\* every attempt of the write_to_sheet call e raised
AllAttemptsFailed(e) == e.did.attempts > 0 /\ ~e.did.written /\ ~e.did.norow

\* C15: a write_to_sheet call all of whose attempts raised made exactly 3
\* attempts, slept 1 s before the second and 2 s before the third and not
\* after it, and the round went on as after a successful write: the winner is
\* in winners_assigned and, once the winners loop is over, every winner was
\* taken through it and the cursor is one past the round's starting task.  A
\* call that wrote the cell made no attempt after that one.
C15_ThreeAttemptsThenGoOn ==
    \A e \in sheetlog :
        /\ AllAttemptsFailed(e) =>
              /\ e.did.attempts = 3
              /\ e.did.sleeps = <<1, 2>>
              /\ <<e.user, e.task>> \in Range(rec[e.msg].assigned)
              /\ rec[e.msg].pc = "announce" =>
                    /\ Len(rec[e.msg].oks) = Len(rec[e.msg].winners)
                    /\ current_task = rec[e.msg].start + 1
        /\ e.did.written => e.did.attempts = Len(e.did.sleeps) + 1

\* a call whose three attempts raised, for the first of two winners, in a
\* round that went on to its announcement
C15_Witness ==
    \E e \in sheetlog :
        /\ AllAttemptsFailed(e)
        /\ e.did.attempts = 3
        /\ rec[e.msg].pc = "announce"
        /\ Len(rec[e.msg].assigned) = 2
        /\ rec[e.msg].assigned[1] = <<e.user, e.task>>

\* C16: a write_to_sheet call for a task whose row is not in the sheet never
\* calls update_cell, and the attempt that sees the row missing is its last:
\* the only sleeps are those after the attempts that raised before it.
C16_MissingRowReturnsAtOnce ==
    \A e \in sheetlog :
        e.task + 1 > e.rows =>
            /\ ~e.did.written
            /\ e.did.updates = 0
            /\ e.did.norow => Len(e.did.sleeps) = e.did.attempts - 1
            /\ ~e.did.norow => AllAttemptsFailed(e)

\* the row is seen missing on the second attempt, after a first that raised
C16_Witness ==
    \E e \in sheetlog :
        /\ e.task + 1 > e.rows
        /\ e.did.norow
        /\ e.did.attempts = 2
        /\ e.did.sleeps = <<1>>

\* C17: the step in which a round ends because the re-fetch of its
\* announcement failed removes the round's bucket, leaves current_task and
\* every record of grants, notifications and ledger writes as they were, and
\* no grant, notification or ledger write exists for that round.
C17_FetchFailureAborts ==
    [][\A m \in Msgs :
          (rec[m].status # "ABORTED" /\ rec'[m].status = "ABORTED") =>
              /\ m \in DOMAIN reaction_timestamps
              /\ m \notin DOMAIN reaction_timestamps'
              /\ current_task' = current_task
              /\ effectVars' = effectVars
              /\ \A x \in grants \cup dms \cup writes : x[1] # m]_vars

\* a round aborted in an allocation that had already assigned a task
C17_Witness ==
    \E m \in Msgs :
        /\ rec[m].status = "ABORTED"
        /\ rec[m].start > 1
        /\ m \notin DOMAIN reaction_timestamps
        /\ current_task = rec[m].start

\* C18: the bucket of a round that is over is not in reaction_timestamps.
C18_BucketGoneWhenRoundEnds ==
    \A m \in Msgs : Over(m) => m \notin DOMAIN reaction_timestamps

\* C19: the first round opened by a loop that restart_task_loop started has
\* starting task number 1 (stated for a loop that is the only one running
\* when it opens the round).
C19_FirstRoundStartsAtOne ==
    \A m \in Msgs :
        (/\ rec[m].pc = "window"
         /\ \A k \in 1..(m - 1) : rec[k].loop # rec[m].loop
         /\ \A l \in Loops : is_running(l) => l = rec[m].loop)
        => rec[m].start = 1

\* C20: while /stop_tasks is the last accepted of /stop_tasks and
\* /create_task, no step posts an announcement or creates a bucket.
C20_NoRoundAfterStop ==
    [][stopped =>
          /\ nMsgs' = nMsgs
          /\ DOMAIN reaction_timestamps' \subseteq DOMAIN reaction_timestamps]_vars

\* /stop_tasks arrived between two ticks: the loop is still to run once
C20_Witness ==
    /\ stopped
    /\ loopSt[task_allocation_loop] = "waiting"
    /\ loopStop[task_allocation_loop]

\* the next step of the round that loop l has in flight
RoundStep(l) ==
    \/ Resolve(l, "ok", now)
    \/ \E p \in GrantOutcomes : ProcessWinner(l, p)
    \/ Announce(l, TRUE)

\* C21: the step in which /stop_tasks is accepted leaves current_task,
\* total_tasks, the claim tracker and the set of pending removal tasks as they
\* were, and does not touch the round in flight; once /stop_tasks is accepted
\* no round is cancelled, the round in flight can take its next step, and
\* every pending removal task can fire.
C21_StopLeavesRoundAndRemovals ==
    /\ [][(stopped' /\ ~stopped) =>
             /\ current_task' = current_task
             /\ total_tasks' = total_tasks
             /\ reaction_timestamps' = reaction_timestamps
             /\ registered' = registered
             /\ role_removal_tasks' = role_removal_tasks
             /\ rec' = rec
             /\ loopMsg' = loopMsg
             /\ loopSt' = loopSt]_vars
    /\ [](stopped =>
             /\ \A m \in Msgs : rec[m].status # "CANCELLED"
             /\ \A l \in Loops : loopSt[l] = "inround" => ENABLED RoundStep(l)
             /\ \A x \in role_removal_tasks : ENABLED FireRemoval(x, TRUE))

\* /stop_tasks was accepted while a round was between its two winners, with
\* the removal task of the first pending
C21_Witness ==
    /\ stopped
    /\ \E l \in Loops :
          /\ loopSt[l] = "inround" /\ loopStop[l]
          /\ rec[loopMsg[l]].pc = "process"
          /\ rec[loopMsg[l]].i = 2
          /\ \E x \in role_removal_tasks : x.id[1] = loopMsg[l]

\* C22: a step in which /configure_settings or /create_task answers with an
\* error (interval < 1, window outside 1..60, removal hours outside 1..168,
\* tasks <= 0, winners outside 1..20, no announce channel or no sheet) changes
\* nothing but the answer: no field of the bot, no loop object, no command
\* in progress; so the settings always hold values inside their ranges.
C22_RejectedCallChangesNothing ==
    /\ [][(reply' # reply /\ reply' # "ok") => UNCHANGED noReply]_vars
    /\ [](/\ interval_minutes >= 1
          /\ reaction_time \in 1..60
          /\ role_removal_hours \in 1..168
          /\ configured => (announce_channel /\ total_tasks > 0
                             /\ winners_per_task \in 1..20))

\* /configure_settings was refused for its removal hours while a round was
\* in its window
C22_Witness ==
    /\ reply = "hours"
    /\ configured
    /\ \E l \in Loops : loopSt[l] = "inround" /\ rec[loopMsg[l]].pc = "window"

\* C23: no exception raised by an external call during a tick ends the
\* loop's task: a round that ended in the `except Exception` of the tick
\* left its loop running (or stopped by /stop_tasks), and no loop object is
\* ever in the failed state.
C23_LoopSurvivesAnyException ==
    /\ \A l \in Loops : loopSt[l] # "failed"
    /\ \A m \in Msgs :
          rec[m].status = "ERROR" => loopSt[rec[m].loop] \in {"waiting", "inround", "done"}

\* the removal tasks that are done
Finished == {e.id : e \in revlog}

\* C24: the removal tasks created are those of the add_roles calls that
\* returned, one each; _role_removal_tasks holds exactly the tasks created
\* and not yet done, a task leaving it when it fires, whether remove_roles
\* returned or raised and however many rounds have run since.
C24_RegistryHoldsThePending ==
    /\ removals = grants
    /\ {x.id : x \in role_removal_tasks} = removals \ Finished
    /\ \A x, y \in role_removal_tasks : x.id = y.id => x = y

\* two tasks of the first round, one done with remove_roles raising and one
\* pending, when the second round is over and has left a task of its own
C24_Witness ==
    /\ rec[2].pc = "done"
    /\ \E e \in revlog : e.id[1] = 1 /\ e.calls = 1 /\ ~e.removed
    /\ \E x, y \in role_removal_tasks : x.id[1] = 1 /\ y.id[1] = 2

\* C25: a removal task whose sleep is over calls remove_roles only if the
\* member holds the role at that moment, and once at most; a task is done
\* once, and a task whose remove_roles raised is not pending again.
C25_RemovalOnlyIfHeldAndOnce ==
    \A e \in revlog :
        /\ e.calls <= 1
        /\ e.calls = 1 => e.held
        /\ \A f \in revlog : f.id = e.id => f = e
        /\ \A x \in role_removal_tasks : x.id # e.id

\* a member who won twice: the first removal took the role, the second found
\* the member without it and called nothing; another removal raised
C25_Witness ==
    /\ \E e, f \in revlog :
          e.user = f.user /\ e.removed /\ ~f.held /\ f.calls = 0
    /\ \E e \in revlog : e.calls = 1 /\ ~e.removed

\* C26: a loop that announced the completion is stopped: it is not running
\* afterwards; and no step opens a round while current_task > total_tasks.
C26_CompletionStopsTheLoop ==
    /\ [](\A l \in completions : ~is_running(l))
    /\ [][\A m \in Msgs :
             (rec[m].pc = "none" /\ rec'[m].pc = "window") =>
                 current_task <= total_tasks]_vars

\* the place of x in the sequence q
Pos(q, x) == CHOOSE j \in 1..Len(q) : q[j] = x

\* C27: of two fetched claimants with equal recorded timestamps, the one
\* whose claim on_reaction_add registered first is ranked first: when the
\* later one is a winner, the earlier one is a winner placed before it.
C27_TiesByRegistrationOrder ==
    \A m \in Msgs :
        Chosen(m) =>
            \A u, v \in Range(rec[m].fetched) \cap DOMAIN rec[m].stamps :
                (/\ u # v
                 /\ rec[m].stamps[u] = rec[m].stamps[v]
                 /\ Pos(registered[m], u) < Pos(registered[m], v)
                 /\ v \in Range(rec[m].winners))
                => (/\ u \in Range(rec[m].winners)
                    /\ Pos(rec[m].winners, u) < Pos(rec[m].winners, v))

\* C28: in a round the cursor moves only in the step that takes the last
\* selected winner through its processing, and the results announcement
\* comes after that (a round becomes DISPATCHED, its results posted, only
\* with every winner processed and the cursor already one past its starting
\* task); the bucket is there through the whole round and is discarded only
\* with the round's end after the announcement (or by a failed re-fetch).
C28_ProcessThenCursorThenAnnounceThenDiscard ==
    /\ [](\A m \in Msgs : InFlight(m) => m \in DOMAIN reaction_timestamps)
    /\ [][\A m \in Msgs :
             /\ (current_task' # current_task /\ InFlight(m)) =>
                   /\ rec[m].pc = "process" /\ rec[m].i = Len(rec[m].winners)
                   /\ rec'[m].pc = "announce"
                   /\ current_task' = current_task + 1
             /\ (rec[m].status # "DISPATCHED" /\ rec'[m].status = "DISPATCHED") =>
                   /\ rec[m].pc = "announce" /\ rec[m].i = Len(rec[m].winners) + 1
                   /\ current_task = rec[m].start + 1
                   /\ current_task' = current_task
                   /\ m \in DOMAIN reaction_timestamps
             /\ (m \in DOMAIN reaction_timestamps /\ m \notin DOMAIN reaction_timestamps') =>
                   rec'[m].status \in {"DISPATCHED", "EMPTY", "FAILED", "ABORTED"}]_vars

\* C29: a member granted the role at time t holds it until t +
\* role_removal_hours at least: a step that takes the role from a member
\* happens at a time at which no removal task created earlier for that member
\* (there is one pending for each of the member's grants until its own delay
\* is over) is still to come due.
C29_RoleKeptForTheFullDelay ==
    [][\A u \in roles \ roles' :
          \A x \in role_removal_tasks :
              (x.user = u /\ x.at < now') => x.due <= now']_vars

\* C30: every task number for which a round granted the role, sent the
\* direct message or wrote the ledger lies in 1..total_tasks.
C30_TaskNumbersWithinTotal ==
    \A x \in grants \cup dms \cup writes : x[3] \in 1..total_tasks

\* a round that moved the cursor: its winners loop ended with an assignment
Advanced(m) ==
    \/ rec[m].status = "DISPATCHED"
    \/ rec[m].pc = "announce" /\ rec[m].assigned # <<>>

\* C31: in one allocation, two different rounds that both moved the cursor
\* wrote no ledger row for the same task number.
C31_NoTaskNumberInTwoRounds ==
    \A x, y \in writes :
        (x[1] # y[1] /\ Advanced(x[1]) /\ Advanced(y[1])) => x[3] # y[3]

\* C32: a round that is over and granted the role or wrote a ledger row for
\* at least one winner moved the cursor before it ended: the cursor it left
\* is past its starting task.
C32_CursorMovedWhenSomethingAssigned ==
    \A m \in Msgs :
        (Over(m) /\ \E x \in grants \cup writes : x[1] = m)
        => rec[m].after > rec[m].start

\* the role grants, direct messages and ledger writes a step adds
NewEffects(g, d, w) == (g \ grants) \cup (d \ dms) \cup (w \ writes)

\* C33: every role grant, direct message and ledger write of a round carries
\* the task number announced when the round opened plus the index of the
\* winner (counted from 0), whatever /create_task or /configure_settings did
\* while the round was in flight.
C33_OneTaskNumberThroughTheRound ==
    [][\A x \in NewEffects(grants', dms', writes') :
          x[3] = rec[x[1]].start + rec[x[1]].i - 1]_vars

\* C34: the winners chosen when the window is over are members who hold the
\* claim reaction at that moment (one who registered a claim and took the
\* reaction back is not among them), none is the bot, and none is chosen
\* twice; the bot's own reaction is never registered in a bucket.
C34_WinnersHoldTheReaction ==
    /\ [][\A m \in Msgs :
             (rec[m].pc = "window" /\ rec'[m].pc \in {"process", "announce"}) =>
                 LET ws == rec'[m].winners
                 IN  /\ Range(ws) \subseteq Range(reactors[m])
                     /\ Bot \notin Range(ws)
                     /\ \A j, k \in 1..Len(ws) : ws[j] = ws[k] => j = k]_vars
    /\ [](\A m \in DOMAIN reaction_timestamps : Bot \notin DOMAIN reaction_timestamps[m])
    /\ [](\A m \in Msgs : Bot \notin Range(registered[m]))

\* two winners were chosen although a member who had registered the earliest
\* claim took the reaction back before the window was over
C34_Witness ==
    \E m \in Msgs : \E u \in Users :
        /\ Chosen(m)
        /\ Len(rec[m].winners) = 2
        /\ u \in DOMAIN rec[m].stamps
        /\ u \notin Range(rec[m].fetched)
        /\ \A v \in Range(rec[m].winners) :
              v \in DOMAIN rec[m].stamps /\ rec[m].stamps[u] < rec[m].stamps[v]

\* the fetched reactors for whom the listener recorded a timestamp
Stamped(m) == Range(rec[m].fetched) \cap DOMAIN rec[m].stamps

\* C35: a fetched reactor without a recorded timestamp can be a winner (the
\* winners are min(winners wanted, reactors fetched) of the fetched reactors)
\* and is ranked after every fetched reactor that has one: when it is a
\* winner, each of those is a winner placed before it; with no recorded
\* timestamp at all the winners are the first of the fetched list, in its
\* order.
C35_UnstampedRankedLast ==
    \A m \in Msgs :
        Chosen(m) =>
            LET ws == rec[m].winners
            IN  /\ Len(ws) = Min(rec[m].want, Len(rec[m].fetched))
                /\ \A u \in Range(ws) \ Stamped(m) : \A v \in Stamped(m) :
                      v \in Range(ws) /\ Pos(ws, v) < Pos(ws, u)
                /\ Stamped(m) = {} => ws = Take(rec[m].fetched, rec[m].want)

\* C36: whenever no round is in flight, reaction_timestamps holds no bucket.
C36_NoBucketBetweenRounds ==
    (\A m \in Msgs : ~InFlight(m)) => DOMAIN reaction_timestamps = {}

\* C37: a step that is not an accepted /create_task never lowers current_task
\* and raises it by one at most; a step that changes it is the step of a round
\* that ends its winners loop with at least one recorded assignment (a round
\* takes that step once), so /configure_settings, /stop_tasks,
\* restart_task_loop, on_reaction_add and the removal tasks leave it alone.
C37_OnlyAnAssigningRoundMovesTheCursor ==
    [][(nCreates' = nCreates /\ current_task' # current_task) =>
          /\ current_task' = current_task + 1
          /\ \E m \in Msgs :
                /\ rec[m].pc = "process" /\ rec'[m].pc = "announce"
                /\ rec'[m].assigned # <<>>
          /\ settingVars' = settingVars
          /\ stopped' = stopped
          /\ cmd' = cmd
          /\ reaction_timestamps' = reaction_timestamps
          /\ revlog' = revlog]_vars

\* two rounds have moved the cursor from 1 to 3; /stop_tasks was accepted and
\* a removal task has fired since the allocation began
C37_Witness ==
    /\ current_task = 3
    /\ stopped
    /\ revlog # {}

\* C38: every role grant that succeeded is followed, sooner or later, by the
\* end of its removal task's sleep (where remove_roles is called if the
\* member still holds the role), whatever rounds, /stop_tasks, /create_task
\* and restart_task_loop calls come in between: at every moment a later
\* moment comes at which the removal task of every grant made so far is done
\* (grants are never taken back, and a task that is done stays done).
C38_EveryGrantGetsItsRemoval ==
    []<>(grants \subseteq Finished)

\* a removal task fired for a grant of the first allocation after a second
\* /create_task had cancelled and replaced the loop
C38_Witness ==
    /\ nCreates = 2
    /\ nLoops = 2
    /\ \E e \in revlog : e.id[1] = 1 /\ e.calls = 1 /\ rec[2].pc # "none"

\* the allocation is complete: the cursor is one past the last task, the
\* installed loop has announced the completion and is stopped, and the rounds
\* that moved the cursor are as many as the tasks
Completed ==
    /\ current_task = total_tasks + 1
    /\ task_allocation_loop \in completions
    /\ loopSt[task_allocation_loop] = "done"
    /\ Cardinality({m \in Msgs : rec[m].status = "DISPATCHED"}) = total_tasks

\* C39: with the loop ticking, no /stop_tasks and no second /create_task,
\* and claimants who are processed to the end sooner or later, an accepted
\* /create_task leads to the completed allocation.
C39_AllocationCompletes ==
    (nCreates = 1) ~> Completed

\* C40: with winners_per_task = 1, on the reactors fetched and the timestamps
\* recorded in a round, the multi-winner bot chooses the winner the
\* single-winner bot chooses, gives it the task number the single-winner bot
\* gives, and moves the cursor as the single-winner bot does once the winner
\* is processed to the end; so the two bots, fed the same claims and ticks,
\* have the same winner, cursor and ledger writes after every round.
C40_SingleWinnerBotsAgree ==
    \A m \in Msgs :
        (Chosen(m) /\ rec[m].pc = "process" /\ rec[m].want = 1) =>
            LET w == SelectWinnerV1(rec[m].fetched, rec[m].stamps)
                t == TaskNumberV1(current_task)
            IN  /\ rec[m].winners = <<w>>
                /\ TaskNumber(rec[m].start, 1) = t
                /\ AdvanceCursor(current_task, << <<w, t>> >>) = AdvanceCursorV1(current_task)

====
